---- MODULE Spec2Model ----
(***************************************************************************)
(* Model of the Transformer decoder (neuralmonkey/decoders/transformer.py): *)
(* its constructor, the recursion that builds its layer stack and its      *)
(* autoregressive decoding loop; of the MIXER trainer (mixer.py) and of    *)
(* the command line driver that wires them (train_translation.py).         *)
(*                                                                         *)
(* Tensors are abstracted to what the control flow reads: a logits tensor  *)
(* is its per-batch-element arg-max, a gradient tensor is the linear       *)
(* combination of per-step gradient symbols it denotes.                    *)
(***************************************************************************)
EXTENDS Integers, Sequences, FiniteSets, TLC

(***************************************************************************)
(* Bounds of the model.                                                    *)
(***************************************************************************)
MaxOutputLen == 3
NumSteps == 2
NumVars == 2
MaxOps == 2
MaxArgLen == 5
MaxDim == 4
MaxDepth == 3
MaxTime == 3

(***************************************************************************)
(* Vocabulary indices used by the decoder.                                 *)
(***************************************************************************)
PAD_TOKEN_INDEX == 0
START_TOKEN_INDEX == 1
END_TOKEN_INDEX == 2
UNK_TOKEN_INDEX == 3

Vocabulary == {PAD_TOKEN_INDEX, START_TOKEN_INDEX, END_TOKEN_INDEX, UNK_TOKEN_INDEX}

Batch == {1, 2}

VARIABLES
    \* ---- decoding loop (TransformerDecoder.get_body / LoopState)
    sample,           \* the sample argument of get_body
    pc,               \* "loop" | "done" | "raised"
    calls,            \* number of invocations of body so far
    step,             \* feedables.step
    finished,         \* feedables.finished
    input_symbol,     \* feedables.input_symbol
    prev_logits,      \* feedables.prev_logits
    logits,           \* histories.logits
    decoder_outputs,  \* histories.decoder_outputs
    mask,             \* histories.mask
    outputs,          \* histories.outputs
    decoded_symbols,  \* histories.decoded_symbols
    input_mask,       \* histories.input_mask
    \* ---- Mixer.__init__: the gradient mixing loop
    mpc,              \* "off" | "loop" | "apply" | "built" | "raised"
    merr,             \* the error raised, "" when none
    mi,               \* index i of the outer loop (decoding step)
    mj,               \* index j of the inner loop (trainable variable)
    xent_gradients,   \* kind of xent_gradients[i][j], "unread" before use
    reinforce_gradients, \* kind of reinforce_gradients[i][j]
    mixed_gradients,  \* the list mixed_gradients
    update_vars,      \* variables the built mixer_optimizer updates
    \* ---- Mixer.run and the update ops of the graph
    rpc,              \* "off" | "idle" | "called" | "decoded" | "rewarded" | "fed"
    params,           \* value (version) of every graph variable
    prev_params,      \* params before the last update op ran
    last_op,          \* "" | "mixer_optimizer" | "regression_optimizer"
    caller_fd,        \* mixing weights the caller put in fd, NotFed if none
    fd,               \* mixing weights in the feed dict
    bleu_fed,         \* fd[self.bleu] is set
    used_weights,     \* mixing weights the last mixer_optimizer run was fed
    decoded_params,   \* params the decoded sequence was computed from
    hidden_deps,      \* variables decoder.hidden_states depend on
    mixer_updates,    \* variables with a mixed gradient (updated by mixer_optimizer)
    ops,              \* number of update ops run so far
    \* ---- train_translation.py __main__
    tpc,              \* "off" | "start" | "parsed" | "graph" | "done" | "exit"
    argv_mixer,       \* the --mixer argument: [given, text]
    maximum_output,   \* args.maximum_output
    args_mixer,       \* args.mixer: [isNone, values]
    graph_built,      \* encoder and decoder graph constructed
    trainer,          \* "" | "Mixer" | "CrossEntropyTrainer"
    texc,             \* the error that ended the script, "" when none
    \* ---- TransformerDecoder.__init__
    cpc,              \* "off" | "fields" | "states" | "cost" | "reuse" | "done" | "raised"
    depth,            \* self.depth
    embedding_size,   \* self.embedding_size
    encoder_channels, \* size of axis 2 of the encoder's attention states
    dimension,        \* self.dimension, NotSet before it is assigned
    cost_built,       \* the tensor self.cost has been built
    runtime_logits_built, \* the tensor self.runtime_logits has been built
    cexc,             \* the error the constructor raised, "" when none
    \* ---- TransformerDecoder.layer
    lpc,              \* "off" | "idle" | "run" | "done"
    length,           \* number of time positions of inputs
    layer_mask,       \* the mask argument, one entry per time position
    lstack,           \* the active calls of layer, innermost last
    lreturned,        \* level of the call that returned last, NoLevel if none
    lresult,          \* the TransformerLayer the last call returned
    computed,         \* per level, how often its sublayers were built
    resolved          \* the levels layer was called with, in call order

decVars == <<sample, pc, calls, step, finished, input_symbol, prev_logits,
             logits, decoder_outputs, mask, outputs, decoded_symbols,
             input_mask>>

mixVars == <<mpc, merr, mi, mj, xent_gradients, reinforce_gradients,
             mixed_gradients, update_vars>>

trainVars == <<rpc, params, prev_params, last_op, caller_fd, fd, bleu_fed,
               used_weights, decoded_params, hidden_deps, mixer_updates, ops>>

mainVars == <<tpc, argv_mixer, maximum_output, args_mixer, graph_built,
              trainer, texc>>

ctorVars == <<cpc, depth, embedding_size, encoder_channels, dimension,
              cost_built, runtime_logits_built, cexc>>

layerVars == <<lpc, length, layer_mask, lstack, lreturned, lresult, computed,
               resolved>>

vars == <<decVars, mixVars, trainVars, mainVars, ctorVars, layerVars>>

(***************************************************************************)
(* The decoding loop.                                                      *)
(***************************************************************************)

\* Fault variant of InitialDecodedSymbols: tf.zeros(shape=[1, batch_size]).
InitialDecodedSymbolsOneSlice == << [i \in Batch |-> 0] >>
\* tf.zeros(shape=[0, batch_size]): a history with no time slice.
InitialDecodedSymbols == << >>

InitialInputMask == << >>

\* AutoregressiveDecoder.get_initial_loop_state: the default loop state.
DefaultHistories == [logits |-> << >>, decoder_outputs |-> << >>,
                     mask |-> << >>, outputs |-> << >>]

DefaultFeedables == [step |-> 0,
                     finished |-> [i \in Batch |-> FALSE],
                     input_symbol |-> [i \in Batch |-> START_TOKEN_INDEX],
                     prev_logits |-> [i \in Batch |-> PAD_TOKEN_INDEX]]

\* tf.concat([history, tf.expand_dims(slice, 0)], axis=0)
ConcatSlice(history, slice) == Append(history, slice)

\* Fault variant of NotFinished: the logical_not is left out.
NotFinishedInverted(fin) == [i \in Batch |-> IF fin[i] THEN 1 ELSE 0]
\* tf.to_float(tf.logical_not(finished)) / tf.to_int32(tf.logical_not(finished))
NotFinished(fin) == [i \in Batch |-> IF fin[i] THEN 0 ELSE 1]

\* Fault variant of MaskedSymbols: the multiplication by the mask is left out.
MaskedSymbolsUnmasked(argmax, fin) == argmax
\* next_symbols = argmax(logits) * int_unfinished_mask
MaskedSymbols(argmax, fin) == [i \in Batch |-> argmax[i] * NotFinished(fin)[i]]

\* has_finished = finished OR (next_symbols == END_TOKEN_INDEX)
HasFinished(fin, next_symbols) ==
    [i \in Batch |-> fin[i] \/ (next_symbols[i] = END_TOKEN_INDEX)]

\* Fault variant of NextStep: the counter is advanced by two.
NextStepTwice(s) == s + 2
\* step=step + 1
NextStep(s) == s + 1

\* The while-loop's continuation test on the loop state.
LoopContinue == step < MaxOutputLen

DecInit ==
    /\ sample \in BOOLEAN
    /\ pc = "loop"
    /\ calls = 0
    /\ step = DefaultFeedables.step
    /\ finished = DefaultFeedables.finished
    /\ input_symbol = DefaultFeedables.input_symbol
    /\ prev_logits = DefaultFeedables.prev_logits
    /\ logits = DefaultHistories.logits
    /\ decoder_outputs = DefaultHistories.decoder_outputs
    /\ mask = DefaultHistories.mask
    /\ outputs = DefaultHistories.outputs
    /\ decoded_symbols = InitialDecodedSymbols
    /\ input_mask = InitialInputMask

DecParked ==
    /\ sample = FALSE
    /\ pc = "off"
    /\ calls = 0
    /\ step = DefaultFeedables.step
    /\ finished = DefaultFeedables.finished
    /\ input_symbol = DefaultFeedables.input_symbol
    /\ prev_logits = DefaultFeedables.prev_logits
    /\ logits = << >>
    /\ decoder_outputs = << >>
    /\ mask = << >>
    /\ outputs = << >>
    /\ decoded_symbols = << >>
    /\ input_mask = << >>

\* body with sample = False: the arg-max branch.
BodyArgmax ==
    /\ pc = "loop"
    /\ LoopContinue
    /\ ~sample
    /\ \E argmax \in [Batch -> Vocabulary] :
        LET new_decoded_symbols == ConcatSlice(decoded_symbols, input_symbol)
            new_input_mask == ConcatSlice(input_mask, NotFinished(finished))
            \* last_layer.temporal_states[:, -1, :]: the last time position
            output_state == Len(new_decoded_symbols)
            next_symbols == MaskedSymbols(argmax, finished)
            has_finished == HasFinished(finished, next_symbols)
            not_finished == [i \in Batch |-> ~has_finished[i]]
        IN  /\ step' = NextStep(step)
            /\ finished' = has_finished
            /\ input_symbol' = next_symbols
            /\ prev_logits' = argmax
            /\ logits' = ConcatSlice(logits, argmax)
            /\ decoder_outputs' = ConcatSlice(decoder_outputs, output_state)
            /\ mask' = ConcatSlice(mask, not_finished)
            /\ outputs' = ConcatSlice(outputs, next_symbols)
            /\ decoded_symbols' = new_decoded_symbols
            /\ input_mask' = new_input_mask
    /\ calls' = calls + 1
    /\ UNCHANGED <<sample, pc>>
    /\ UNCHANGED <<mixVars, trainVars, mainVars, ctorVars, layerVars>>

\* body with sample = True: next_symbols is drawn by tf.multinomial, and
\* has_finished / not_finished are never bound, so building new_feedables
\* raises (UnboundLocalError) and no loop state is returned.
BodySample ==
    /\ pc = "loop"
    /\ LoopContinue
    /\ sample
    /\ pc' = "raised"
    /\ calls' = calls + 1
    /\ UNCHANGED <<sample, step, finished, input_symbol, prev_logits, logits,
                   decoder_outputs, mask, outputs, decoded_symbols, input_mask>>
    /\ UNCHANGED <<mixVars, trainVars, mainVars, ctorVars, layerVars>>

\* The loop leaves when the continuation test fails.
LoopExit ==
    /\ pc = "loop"
    /\ ~LoopContinue
    /\ pc' = "done"
    /\ UNCHANGED <<sample, calls, step, finished, input_symbol, prev_logits,
                   logits, decoder_outputs, mask, outputs, decoded_symbols,
                   input_mask>>
    /\ UNCHANGED <<mixVars, trainVars, mainVars, ctorVars, layerVars>>

DecNext == BodyArgmax \/ BodySample \/ LoopExit


(***************************************************************************)
(* Mixer.__init__: mixing the per-step gradients.                          *)
(*                                                                         *)
(* A gradient tensor is the linear combination of the gradient symbols     *)
(* <<stream, i, j>> (stream "xent" or "rg", step i, variable j) it         *)
(* denotes, kept as the set of pairs <<symbol, coefficient>> with a        *)
(* non-zero coefficient.  A coefficient is affine in the step's mixing     *)
(* weight placeholder: <<c, w>> stands for c + w * mixer_weights[i].       *)
(***************************************************************************)
StepIdx == 0 .. NumSteps - 1
VarIdx == 0 .. NumVars - 1
Cells == StepIdx \X VarIdx
Terms == {"xent", "rg"} \X StepIdx \X VarIdx

\* What tf.gradients returns for one variable, as the loop sees it.
XentKinds == {"None", "Tensor", "IndexedSlices", "Other"}
ReinforceKinds == {"None", "Tensor"}

ZeroForm == {}

\* The coefficient of a gradient symbol in a tensor.
CoefOf(form, t) ==
    IF \E e \in form : e[1] = t
    THEN (CHOOSE e \in form : e[1] = t)[2]
    ELSE <<0, 0>>
NoneGradient == [isNone |-> TRUE, form |-> ZeroForm]
Gradient(f) == [isNone |-> FALSE, form |-> f]

\* mix_w and 1 - mix_w as coefficients
MixW == <<0, 1>>
OneMinusMixW == <<1, -1>>

\* tf.scalar_mul(coefficient, gradient symbol <<stream, i, j>>)
ScalarMul(coef, stream, i, j) == {<< <<stream, i, j>>, coef >>}

\* tf.add(a, b) and mixed_gradients[j] += g
TfAdd(a, b) ==
    LET sum(t) == <<CoefOf(a, t)[1] + CoefOf(b, t)[1],
                    CoefOf(a, t)[2] + CoefOf(b, t)[2]>>
    IN  {<<t, sum(t)>> : t \in {u \in Terms : sum(u) # <<0, 0>>}}

\* Fault variant of MixedTerm: the two weights are exchanged.
MixedTermSwapped(i, j) ==
    TfAdd(ScalarMul(OneMinusMixW, "xent", i, j), ScalarMul(MixW, "rg", i, j))
\* g = tf.add(tf.scalar_mul(mix_w, xent_g), tf.scalar_mul(1 - mix_w, rg))
MixedTerm(i, j) ==
    TfAdd(ScalarMul(MixW, "xent", i, j), ScalarMul(OneMinusMixW, "rg", i, j))

\* Fault variant of Accumulate: the entry is overwritten, not added to.
AccumulateOverwrite(old, g) == Gradient(g)
\* if mixed_gradients[j] is None: mixed_gradients[j] = g
\* else: mixed_gradients[j] += g
Accumulate(old, g) ==
    IF old.isNone THEN Gradient(g) ELSE Gradient(TfAdd(old.form, g))

\* Fault variant of VarsToUpdate: None gradients are not filtered out.
VarsToUpdateAll(grads) == {j \in VarIdx : j + 1 <= Len(grads)}
\* Optimizer.apply_gradients: the variables whose gradient is not None.
VarsToUpdate(grads) ==
    {j \in VarIdx : j + 1 <= Len(grads) /\ ~grads[j + 1].isNone}

MixParked ==
    /\ mpc = "off"
    /\ merr = ""
    /\ mi = 0
    /\ mj = 0
    /\ xent_gradients = [c \in Cells |-> "unread"]
    /\ reinforce_gradients = [c \in Cells |-> "unread"]
    /\ mixed_gradients = << >>
    /\ update_vars = {}

\* mixed_gradients = [] before the loops
MixInit ==
    /\ mpc = "loop"
    /\ merr = ""
    /\ mi = 0
    /\ mj = 0
    /\ xent_gradients = [c \in Cells |-> "unread"]
    /\ reinforce_gradients = [c \in Cells |-> "unread"]
    /\ mixed_gradients = << >>
    /\ update_vars = {}

\* The two for loops advance to the next (i, j); after the last one the
\* constructor goes on to apply_gradients.
Advance ==
    IF mj + 1 < NumVars
    THEN /\ mj' = mj + 1
         /\ UNCHANGED <<mi, mpc>>
    ELSE /\ mj' = 0
         /\ mi' = mi + 1
         /\ mpc' = IF mi + 1 < NumSteps THEN "loop" ELSE "apply"

\* The iteration reads rg and xent_g from the two zipped gradient lists.
ReadCell(xk, rk) ==
    /\ xent_gradients' = [xent_gradients EXCEPT ![<<mi, mj>>] = xk]
    /\ reinforce_gradients' = [reinforce_gradients EXCEPT ![<<mi, mj>>] = rk]

\* if xent_g is None and i == 0: mixed_gradients.append(None); continue
IterAppendNone ==
    /\ mpc = "loop"
    /\ mi = 0
    /\ \E rk \in ReinforceKinds : ReadCell("None", rk)
    /\ mixed_gradients' = Append(mixed_gradients, NoneGradient)
    /\ Advance
    /\ UNCHANGED <<merr, update_vars>>
    /\ UNCHANGED <<decVars, trainVars, mainVars, ctorVars, layerVars>>

\* elif xent_g is None: continue
IterSkip ==
    /\ mpc = "loop"
    /\ mi > 0
    /\ \E rk \in ReinforceKinds : ReadCell("None", rk)
    /\ Advance
    /\ UNCHANGED <<merr, mixed_gradients, update_vars>>
    /\ UNCHANGED <<decVars, trainVars, mainVars, ctorVars, layerVars>>

\* xent_g is a Tensor or IndexedSlices and rg is a tensor: g is computed and
\* appended (i == 0) or accumulated into mixed_gradients[j]
IterMix ==
    /\ mpc = "loop"
    /\ \E xk \in {"Tensor", "IndexedSlices"} : ReadCell(xk, "Tensor")
    /\ LET g == MixedTerm(mi, mj)
       IN  mixed_gradients' =
               IF mi = 0
               THEN Append(mixed_gradients, Gradient(g))
               ELSE [mixed_gradients EXCEPT
                        ![mj + 1] = Accumulate(mixed_gradients[mj + 1], g)]
    /\ Advance
    /\ UNCHANGED <<merr, update_vars>>
    /\ UNCHANGED <<decVars, trainVars, mainVars, ctorVars, layerVars>>

\* xent_g is a Tensor or IndexedSlices and rg is None:
\* tf.scalar_mul(1 - mix_w, None) raises
IterMixNoneOperand ==
    /\ mpc = "loop"
    /\ \E xk \in {"Tensor", "IndexedSlices"} : ReadCell(xk, "None")
    /\ mpc' = "raised"
    /\ merr' = "NoneOperand"
    /\ UNCHANGED <<mi, mj, mixed_gradients, update_vars>>
    /\ UNCHANGED <<decVars, trainVars, mainVars, ctorVars, layerVars>>

\* else: raise Exception("Unnkown type of gradients ...")
IterUnknownType ==
    /\ mpc = "loop"
    /\ \E rk \in ReinforceKinds : ReadCell("Other", rk)
    /\ mpc' = "raised"
    /\ merr' = "UnknownType"
    /\ UNCHANGED <<mi, mj, mixed_gradients, update_vars>>
    /\ UNCHANGED <<decVars, trainVars, mainVars, ctorVars, layerVars>>

\* tf.train.AdamOptimizer().apply_gradients(zip(mixed_gradients,
\* trainable_vars)): raises when no variable has a gradient, otherwise
\* builds the update of the variables that have one.
ApplyGradientsBuilt ==
    /\ mpc = "apply"
    /\ VarsToUpdate(mixed_gradients) # {}
    /\ update_vars' = VarsToUpdate(mixed_gradients)
    /\ mpc' = "built"
    /\ UNCHANGED <<merr, mi, mj, xent_gradients, reinforce_gradients,
                   mixed_gradients>>
    /\ UNCHANGED <<decVars, trainVars, mainVars, ctorVars, layerVars>>

ApplyGradientsRaises ==
    /\ mpc = "apply"
    /\ VarsToUpdate(mixed_gradients) = {}
    /\ mpc' = "raised"
    /\ merr' = "NoGradients"
    /\ UNCHANGED <<mi, mj, xent_gradients, reinforce_gradients,
                   mixed_gradients, update_vars>>
    /\ UNCHANGED <<decVars, trainVars, mainVars, ctorVars, layerVars>>

MixNext ==
    \/ IterAppendNone
    \/ IterSkip
    \/ IterMix
    \/ IterMixNoneOperand
    \/ IterUnknownType
    \/ ApplyGradientsBuilt
    \/ ApplyGradientsRaises

(***************************************************************************)
(* The graph variables, Mixer.run and the two update ops.                  *)
(*                                                                         *)
(* The name of a variable is the sequence of its characters.               *)
(***************************************************************************)
MixerScope == <<"m", "i", "x", "e", "r">>

\* The graph variables, by the Python name that holds them, and v.name.
RegressorVariables == {"linear_reg_W", "linear_reg_b"}
MainVariables == {"decoder_cell_W", "decoder_out_W"}

VariableName(v) ==
    CASE v = "linear_reg_W" ->
           <<"m", "i", "x", "e", "r", "/", "e", "x", "p", "r", "e", "c", "t", "e", "d", "_", "r", "e", "w", "a", "r", "d", "_", "r", "e", "g", "r", "e", "s", "s", "o", "r", "/", "V", "a", "r", "i", "a", "b", "l", "e", ":", "0">>
      [] v = "linear_reg_b" ->
           <<"m", "i", "x", "e", "r", "/", "e", "x", "p", "r", "e", "c", "t", "e", "d", "_", "r", "e", "w", "a", "r", "d", "_", "r", "e", "g", "r", "e", "s", "s", "o", "r", "/", "V", "a", "r", "i", "a", "b", "l", "e", "_", "1", ":", "0">>
      [] v = "decoder_cell_W" ->
           <<"d", "e", "c", "o", "d", "e", "r", "/", "c", "e", "l", "l", "/", "W", ":", "0">>
      [] v = "decoder_out_W" ->
           <<"d", "e", "c", "o", "d", "e", "r", "/", "o", "u", "t", "/", "W", ":", "0">>

\* tf.trainable_variables(): tf.Variable is trainable by default
AllTrainableVariables == MainVariables \cup RegressorVariables

\* v.name.startswith(prefix)
StartsWith(name, prefix) ==
    /\ Len(name) >= Len(prefix)
    /\ SubSeq(name, 1, Len(prefix)) = prefix

\* trainable_vars = [v for v in tf.trainable_variables()
\*                   if not v.name.startswith('mixer')]
TrainableVars ==
    {v \in AllTrainableVariables : ~StartsWith(VariableName(v), MixerScope)}

\* GradientDescentOptimizer(1e-3).minimize(regression_loss): no var_list is
\* given, so the loss is differentiated with respect to every trainable
\* variable, and every variable the loss depends on is updated.  The loss
\* is a function of linear_reg_W, linear_reg_b and decoder.hidden_states.
RegressionUpdates(deps) ==
    {v \in AllTrainableVariables : v \in RegressorVariables \/ v \in deps}

NotFed == -1
WeightValues == {0, 1}
AllVariables == AllTrainableVariables

TrainParked ==
    /\ rpc = "off"
    /\ params = [v \in AllVariables |-> 0]
    /\ prev_params = [v \in AllVariables |-> 0]
    /\ last_op = ""
    /\ caller_fd = [t \in StepIdx |-> NotFed]
    /\ fd = [t \in StepIdx |-> NotFed]
    /\ bleu_fed = FALSE
    /\ used_weights = [t \in StepIdx |-> NotFed]
    /\ decoded_params = [v \in AllVariables |-> 0]
    /\ hidden_deps = {}
    /\ mixer_updates = {}
    /\ ops = 0

\* The state after Mixer.__init__ returned: the graph holds the two update
\* ops; mixer_optimizer updates the trainable_vars that have a gradient.
TrainInit ==
    /\ rpc = "idle"
    /\ params = [v \in AllVariables |-> 0]
    /\ prev_params = [v \in AllVariables |-> 0]
    /\ last_op = ""
    /\ caller_fd = [t \in StepIdx |-> NotFed]
    /\ fd = [t \in StepIdx |-> NotFed]
    /\ bleu_fed = FALSE
    /\ used_weights = [t \in StepIdx |-> NotFed]
    /\ decoded_params = [v \in AllVariables |-> 0]
    /\ hidden_deps \in SUBSET MainVariables
    /\ mixer_updates \in (SUBSET TrainableVars) \ {{}}
    /\ ops = 0

\* An optimizer's update op: every variable it updates gets a new value.
ApplyUpdate(values, updated) ==
    [v \in AllVariables |-> IF v \in updated THEN values[v] + 1 ELSE values[v]]

\* run(self, sess, fd, references, verbose): the caller passes its feed dict
RunCall ==
    /\ rpc = "idle"
    /\ ops < MaxOps
    /\ \E given \in [StepIdx -> WeightValues \cup {NotFed}] :
          /\ caller_fd' = given
          /\ fd' = given
    /\ bleu_fed' = FALSE
    /\ rpc' = "called"
    /\ UNCHANGED <<params, prev_params, last_op, used_weights, decoded_params,
                   hidden_deps, mixer_updates, ops>>
    /\ UNCHANGED <<decVars, mixVars, mainVars, ctorVars, layerVars>>

\* Fault variant of RunDecode: the decoding run also applies the update.
RunDecodeUpdating ==
    /\ rpc = "called"
    /\ decoded_params' = params
    /\ params' = ApplyUpdate(params, mixer_updates)
    /\ rpc' = "decoded"
    /\ UNCHANGED <<prev_params, last_op, caller_fd, fd, bleu_fed,
                   used_weights, hidden_deps, mixer_updates, ops>>
    /\ UNCHANGED <<decVars, mixVars, mainVars, ctorVars, layerVars>>
\* decoded_sequence = sess.run(self.decoder.decoded_seq, feed_dict=fd)
RunDecode ==
    /\ rpc = "called"
    /\ decoded_params' = params
    /\ rpc' = "decoded"
    /\ UNCHANGED <<params, prev_params, last_op, caller_fd, fd, bleu_fed,
                   used_weights, hidden_deps, mixer_updates, ops>>
    /\ UNCHANGED <<decVars, mixVars, mainVars, ctorVars, layerVars>>

\* sentences, bleus; fd[self.bleu] = bleus
RunReward ==
    /\ rpc = "decoded"
    /\ bleu_fed' = TRUE
    /\ rpc' = "rewarded"
    /\ UNCHANGED <<params, prev_params, last_op, caller_fd, fd, used_weights,
                   decoded_params, hidden_deps, mixer_updates, ops>>
    /\ UNCHANGED <<decVars, mixVars, mainVars, ctorVars, layerVars>>

\* for w in self.mixer_weights: fd[w] = 1
RunFeedWeights ==
    /\ rpc = "rewarded"
    /\ fd' = [t \in StepIdx |-> 1]
    /\ rpc' = "fed"
    /\ UNCHANGED <<params, prev_params, last_op, caller_fd, bleu_fed,
                   used_weights, decoded_params, hidden_deps, mixer_updates,
                   ops>>
    /\ UNCHANGED <<decVars, mixVars, mainVars, ctorVars, layerVars>>

\* sess.run([self.mixer_optimizer, ...], feed_dict=fd), verbose or not
RunOptimizer ==
    /\ rpc = "fed"
    /\ used_weights' = fd
    /\ prev_params' = params
    /\ params' = ApplyUpdate(params, mixer_updates)
    /\ last_op' = "mixer_optimizer"
    /\ ops' = ops + 1
    /\ rpc' = "idle"
    /\ UNCHANGED <<caller_fd, fd, bleu_fed, decoded_params, hidden_deps,
                   mixer_updates>>
    /\ UNCHANGED <<decVars, mixVars, mainVars, ctorVars, layerVars>>

\* The op regression_optimizer built in the constructor, when it is run.
RunRegressionOptimizer ==
    /\ rpc = "idle"
    /\ ops < MaxOps
    /\ prev_params' = params
    /\ params' = ApplyUpdate(params, RegressionUpdates(hidden_deps))
    /\ last_op' = "regression_optimizer"
    /\ ops' = ops + 1
    /\ UNCHANGED <<rpc, caller_fd, fd, bleu_fed, used_weights, decoded_params,
                   hidden_deps, mixer_updates>>
    /\ UNCHANGED <<decVars, mixVars, mainVars, ctorVars, layerVars>>

(***************************************************************************)
(* train_translation.py: the --mixer argument and the choice of trainer.   *)
(***************************************************************************)
Digits == {"0", "1", "2", "3", "4", "5", "6", "7", "8", "9"}
ArgChars == {"1", "2", ","}

DigitValue(ch) ==
    CASE ch = "0" -> 0 [] ch = "1" -> 1 [] ch = "2" -> 2 [] ch = "3" -> 3
      [] ch = "4" -> 4 [] ch = "5" -> 5 [] ch = "6" -> 6 [] ch = "7" -> 7
      [] ch = "8" -> 8 [] ch = "9" -> 9

\* string.split(","): the pieces between the commas
RECURSIVE SplitComma(_)
SplitComma(str) ==
    IF \A k \in 1 .. Len(str) : str[k] # ","
    THEN << str >>
    ELSE LET k == CHOOSE n \in 1 .. Len(str) :
                      str[n] = "," /\ \A m \in 1 .. n - 1 : str[m] # ","
         IN  << SubSeq(str, 1, k - 1) >>
                 \o SplitComma(SubSeq(str, k + 1, Len(str)))

\* int(s) raises ValueError unless s is a non-empty run of digits
IsInt(piece) == Len(piece) > 0 /\ \A k \in 1 .. Len(piece) : piece[k] \in Digits

RECURSIVE IntOf(_)
IntOf(piece) ==
    IF Len(piece) = 0 THEN 0
    ELSE 10 * IntOf(SubSeq(piece, 1, Len(piece) - 1))
             + DigitValue(piece[Len(piece)])

\* values = [int(s) for s in string.split(",")]
ParsedValues(str) ==
    LET pieces == SplitComma(str)
    IN  [k \in 1 .. Len(pieces) |-> IntOf(pieces[k])]

\* assert(len(values) == 2)
MixerValuesLen == 2

\* def __init__(self, decoder): the arguments Mixer takes besides self
MixerInitArity == 1
\* Mixer(decoder, xent_calls, moving_calls): the arguments the script passes
MixerCallArgs == 3

ArgStrings == UNION {[1 .. n -> ArgChars] : n \in 0 .. MaxArgLen}

MainParked ==
    /\ tpc = "off"
    /\ argv_mixer = [given |-> FALSE, text |-> << >>]
    /\ maximum_output = 0
    /\ args_mixer = [isNone |-> TRUE, values |-> << >>]
    /\ graph_built = FALSE
    /\ trainer = ""
    /\ texc = ""

\* The script starts with its command line; --mixer defaults to None.
MainInit ==
    /\ tpc = "start"
    /\ argv_mixer \in {[given |-> FALSE, text |-> << >>]}
                      \cup {[given |-> TRUE, text |-> str] : str \in ArgStrings}
    /\ maximum_output \in 1 .. MaxOutputLen
    /\ args_mixer = [isNone |-> TRUE, values |-> << >>]
    /\ graph_built = FALSE
    /\ trainer = ""
    /\ texc = ""

\* parser.parse_args() when --mixer is absent or mixer_values returns
ParseArgs ==
    /\ tpc = "start"
    /\ \/ /\ ~argv_mixer.given
          /\ args_mixer' = [isNone |-> TRUE, values |-> << >>]
       \/ /\ argv_mixer.given
          /\ \A k \in 1 .. Len(SplitComma(argv_mixer.text)) :
                 IsInt(SplitComma(argv_mixer.text)[k])
          /\ Len(ParsedValues(argv_mixer.text)) = MixerValuesLen
          /\ args_mixer' = [isNone |-> FALSE,
                            values |-> ParsedValues(argv_mixer.text)]
    /\ tpc' = "parsed"
    /\ UNCHANGED <<argv_mixer, maximum_output, graph_built, trainer, texc>>
    /\ UNCHANGED <<decVars, mixVars, trainVars, ctorVars, layerVars>>

\* int(s) raises ValueError in mixer_values: argparse reports the argument
\* as invalid and exits
ParseArgsValueError ==
    /\ tpc = "start"
    /\ argv_mixer.given
    /\ \E k \in 1 .. Len(SplitComma(argv_mixer.text)) :
           ~IsInt(SplitComma(argv_mixer.text)[k])
    /\ tpc' = "exit"
    /\ texc' = "ArgumentError"
    /\ UNCHANGED <<argv_mixer, maximum_output, args_mixer, graph_built, trainer>>
    /\ UNCHANGED <<decVars, mixVars, trainVars, ctorVars, layerVars>>

\* assert(len(values) == 2) fails in mixer_values
ParseArgsAssertionError ==
    /\ tpc = "start"
    /\ argv_mixer.given
    /\ \A k \in 1 .. Len(SplitComma(argv_mixer.text)) :
           IsInt(SplitComma(argv_mixer.text)[k])
    /\ Len(ParsedValues(argv_mixer.text)) # MixerValuesLen
    /\ tpc' = "exit"
    /\ texc' = "AssertionError"
    /\ UNCHANGED <<argv_mixer, maximum_output, args_mixer, graph_built, trainer>>
    /\ UNCHANGED <<decVars, mixVars, trainVars, ctorVars, layerVars>>

\* encoder = SentenceEncoder(...); decoder = Decoder(...)
BuildGraph ==
    /\ tpc = "parsed"
    /\ graph_built' = TRUE
    /\ tpc' = "graph"
    /\ UNCHANGED <<argv_mixer, maximum_output, args_mixer, trainer, texc>>
    /\ UNCHANGED <<decVars, mixVars, trainVars, ctorVars, layerVars>>

\* if args.mixer: a non-empty list is true, None is false
MixerRequested == ~args_mixer.isNone /\ Len(args_mixer.values) > 0

\* trainer = Mixer(decoder, xent_calls, moving_calls): the call raises
\* TypeError unless it passes as many arguments as Mixer.__init__ takes
MakeMixer ==
    /\ tpc = "graph"
    /\ MixerRequested
    /\ IF MixerCallArgs = MixerInitArity
       THEN /\ trainer' = "Mixer"
            /\ tpc' = "done"
            /\ texc' = texc
       ELSE /\ trainer' = trainer
            /\ tpc' = "exit"
            /\ texc' = "TypeError"
    /\ UNCHANGED <<argv_mixer, maximum_output, args_mixer, graph_built>>
    /\ UNCHANGED <<decVars, mixVars, trainVars, ctorVars, layerVars>>

\* else: trainer = CrossEntropyTrainer(decoder, args.l2_regularization)
MakeCrossEntropyTrainer ==
    /\ tpc = "graph"
    /\ ~MixerRequested
    /\ trainer' = "CrossEntropyTrainer"
    /\ tpc' = "done"
    /\ UNCHANGED <<argv_mixer, maximum_output, args_mixer, graph_built, texc>>
    /\ UNCHANGED <<decVars, mixVars, trainVars, ctorVars, layerVars>>

(***************************************************************************)
(* TransformerDecoder.__init__: the check of the model dimension.          *)
(***************************************************************************)
Dims == 1 .. MaxDim
Depths == 0 .. MaxDepth

\* The value of an attribute that has not been assigned yet.
NotSet == 0

\* Fault variant of DimensionMismatch: the sizes are never compared.
DimensionMismatchNever(e, d) == FALSE
\* if self.embedding_size != self.dimension
DimensionMismatch(e, d) == e # d

CtorParked ==
    /\ cpc = "off"
    /\ depth = 0
    /\ embedding_size = 1
    /\ encoder_channels = 1
    /\ dimension = NotSet
    /\ cost_built = FALSE
    /\ runtime_logits_built = FALSE
    /\ cexc = ""

\* The state after AutoregressiveDecoder.__init__ returned and the
\* attributes encoder .. use_att_transform_bias were assigned.
CtorInit ==
    /\ cpc = "fields"
    /\ depth \in Depths
    /\ embedding_size \in Dims
    /\ encoder_channels \in Dims
    /\ dimension = NotSet
    /\ cost_built = FALSE
    /\ runtime_logits_built = FALSE
    /\ cexc = ""

\* self.encoder_states, self.encoder_mask, self.dimension
CtorEncoderStates ==
    /\ cpc = "fields"
    /\ dimension' = encoder_channels
    /\ cpc' = "states"
    /\ UNCHANGED <<depth, embedding_size, encoder_channels, cost_built,
                   runtime_logits_built, cexc>>
    /\ UNCHANGED <<decVars, mixVars, trainVars, mainVars, layerVars>>

\* raise ValueError("Model dimension and input embedding size do not match")
CtorRaiseValueError ==
    /\ cpc = "states"
    /\ DimensionMismatch(embedding_size, dimension)
    /\ cexc' = "ValueError"
    /\ cpc' = "raised"
    /\ UNCHANGED <<depth, embedding_size, encoder_channels, dimension,
                   cost_built, runtime_logits_built>>
    /\ UNCHANGED <<decVars, mixVars, trainVars, mainVars, layerVars>>

\* log("Decoder cost op: {}".format(self.cost)): reading the attribute
\* builds the cost tensor.
CtorBuildCost ==
    /\ cpc = "states"
    /\ ~DimensionMismatch(embedding_size, dimension)
    /\ cost_built' = TRUE
    /\ cpc' = "cost"
    /\ UNCHANGED <<depth, embedding_size, encoder_channels, dimension,
                   runtime_logits_built, cexc>>
    /\ UNCHANGED <<decVars, mixVars, trainVars, mainVars, layerVars>>

\* self._variable_scope.reuse_variables()
CtorReuseVariables ==
    /\ cpc = "cost"
    /\ cpc' = "reuse"
    /\ UNCHANGED <<depth, embedding_size, encoder_channels, dimension,
                   cost_built, runtime_logits_built, cexc>>
    /\ UNCHANGED <<decVars, mixVars, trainVars, mainVars, layerVars>>

\* log("Runtime logits: {}".format(self.runtime_logits)): reading the
\* attribute builds the runtime logits, and the constructor returns.
CtorBuildRuntimeLogits ==
    /\ cpc = "reuse"
    /\ runtime_logits_built' = TRUE
    /\ cpc' = "done"
    /\ UNCHANGED <<depth, embedding_size, encoder_channels, dimension,
                   cost_built, cexc>>
    /\ UNCHANGED <<decVars, mixVars, trainVars, mainVars, layerVars>>

(***************************************************************************)
(* TransformerDecoder.layer: the recursion over the levels of the stack.   *)
(*                                                                         *)
(* A tensor of temporal states is abstracted to the sequence of sublayers  *)
(* that produced it (ops) and, per time position, the set of input         *)
(* positions its value is a function of (deps).                            *)
(***************************************************************************)
Levels == 0 .. MaxDepth

NoLevel == -1

\* The masks of a sequence: the valid positions first, then the padding.
Masks(T) == {[t \in 1 .. T |-> IF t <= k THEN 1 ELSE 0] : k \in 1 .. T}

\* embed_inputs: position t of the result is the embedding of symbol t plus
\* the position signal of t.
EmbeddedInputs(T) == [ops |-> << >>, deps |-> [t \in 1 .. T |-> {t}]]

TransformerLayer(states, m) == [states |-> states, mask |-> m]

NoLayer == TransformerLayer([ops |-> << >>, deps |-> << >>], << >>)

\* Fault variant of SelfAttentionMasked: the self-attention is not causal.
SelfAttentionUnmasked == FALSE
\* masked=True in the call of attention of self_attention_sublayer
SelfAttentionMasked == TRUE

\* The key positions a query at position t gets a non-zero weight for:
\* the valid keys and, when masked, none with key index > query index.
AttendedKeys(t, keys_mask, masked) ==
    {k \in DOMAIN keys_mask : keys_mask[k] = 1 /\ (masked => k <= t)}

\* attention(queries, keys, values, keys_mask, masked) over the decoder's own
\* states: the context at t is a function of the query at t and of the
\* attended keys and values.
SelfAttentionDeps(x, keys_mask, masked) ==
    [t \in DOMAIN x |->
        x[t] \cup UNION {x[k] : k \in AttendedKeys(t, keys_mask, masked)}]

\* self_attention_sublayer: layer_norm and dropout act on each position
\* alone; the residual connection adds the states of the previous layer.
SelfAttentionSublayer(prev_layer) ==
    LET normalized_states == prev_layer.states.deps
        self_context == SelfAttentionDeps(normalized_states, prev_layer.mask,
                                          SelfAttentionMasked)
    IN  [ops |-> Append(prev_layer.states.ops, "self_attention"),
         deps |-> [t \in DOMAIN self_context |->
                      self_context[t] \cup prev_layer.states.deps[t]]]

\* encoder_attention_sublayer: keys and values are the encoder states, so
\* no other decoder position enters the context of a query.
EncoderAttentionSublayer(queries) ==
    [ops |-> Append(queries.ops, "encdec_attention"), deps |-> queries.deps]

\* feedforward_sublayer: dense layers applied to each position alone.
FeedforwardSublayer(layer_input) ==
    [ops |-> Append(layer_input.ops, "feedforward"),
     deps |-> layer_input.deps]

\* layer_norm(output_states)
LayerNorm(x) == [ops |-> Append(x.ops, "layer_norm"), deps |-> x.deps]

\* Fault variant of IsOutputLevel: every level normalises its output.
IsOutputLevelAlways(d, level) == TRUE
\* if self.depth == level
IsOutputLevel(d, level) == d = level

\* Fault variant of PrevLayerRequests: the previous layer is requested twice.
PrevLayerRequestsTwice(level) == <<level - 1, level - 1>>
\* prev_layer = self.layer(level - 1, inputs, mask)
PrevLayerRequests(level) == <<level - 1>>

\* A call of layer(level, inputs, mask) and the calls it still has to make.
Frame(level) ==
    [level |-> level,
     todo |-> IF level = 0 THEN << >> ELSE PrevLayerRequests(level)]

Top == lstack[Len(lstack)]

Pop == SubSeq(lstack, 1, Len(lstack) - 1)

LayerParked ==
    /\ lpc = "off"
    /\ length = 0
    /\ layer_mask = << >>
    /\ lstack = << >>
    /\ lreturned = NoLevel
    /\ lresult = NoLayer
    /\ computed = [l \in Levels |-> 0]
    /\ resolved = << >>

\* The decoder passed the check of its dimension and is about to build its
\* tensors; no layer has been requested yet.
LayerInit ==
    /\ cpc = "states"
    /\ depth \in Depths
    /\ embedding_size \in Dims
    /\ encoder_channels = embedding_size
    /\ dimension = embedding_size
    /\ cost_built = FALSE
    /\ runtime_logits_built = FALSE
    /\ cexc = ""
    /\ lpc = "idle"
    /\ length = 0
    /\ layer_mask = << >>
    /\ lstack = << >>
    /\ lreturned = NoLevel
    /\ lresult = NoLayer
    /\ computed = [l \in Levels |-> 0]
    /\ resolved = << >>

\* last_layer = self.layer(self.depth, embedded_inputs, tf.transpose(mask))
LayerRequest ==
    /\ lpc = "idle"
    /\ \E T \in 1 .. MaxTime :
          /\ length' = T
          /\ layer_mask' \in Masks(T)
    /\ lstack' = <<Frame(depth)>>
    /\ resolved' = <<depth>>
    /\ lpc' = "run"
    /\ UNCHANGED <<lreturned, lresult, computed>>
    /\ UNCHANGED <<decVars, mixVars, trainVars, mainVars, ctorVars>>

\* The recursive call self.layer(level - 1, inputs, mask).
LayerEnter ==
    /\ lpc = "run"
    /\ Top.todo # << >>
    /\ lstack' = Append([lstack EXCEPT ![Len(lstack)].todo = Tail(Top.todo)],
                        Frame(Head(Top.todo)))
    /\ resolved' = Append(resolved, Head(Top.todo))
    /\ UNCHANGED <<lpc, length, layer_mask, lreturned, lresult, computed>>
    /\ UNCHANGED <<decVars, mixVars, trainVars, mainVars, ctorVars>>

\* if level == 0: return TransformerLayer(inputs, mask)
LayerBase ==
    /\ lpc = "run"
    /\ Top.level = 0
    /\ lresult' = TransformerLayer(EmbeddedInputs(length), layer_mask)
    /\ lreturned' = 0
    /\ lstack' = Pop
    /\ lpc' = IF Len(lstack) = 1 THEN "done" ELSE "run"
    /\ UNCHANGED <<length, layer_mask, computed, resolved>>
    /\ UNCHANGED <<decVars, mixVars, trainVars, mainVars, ctorVars>>

\* The three sublayers on prev_layer, the layer normalization of the
\* decoder output, and the return of the new TransformerLayer.
LayerCompute ==
    /\ lpc = "run"
    /\ Top.level > 0
    /\ Top.todo = << >>
    /\ LET prev_layer == lresult
           self_context == SelfAttentionSublayer(prev_layer)
           encoder_context == EncoderAttentionSublayer(self_context)
           output_states == FeedforwardSublayer(encoder_context)
       IN  lresult' = TransformerLayer(
                          IF IsOutputLevel(depth, Top.level)
                          THEN LayerNorm(output_states)
                          ELSE output_states,
                          layer_mask)
    /\ lreturned' = Top.level
    /\ computed' = [computed EXCEPT ![Top.level] = @ + 1]
    /\ lstack' = Pop
    /\ lpc' = IF Len(lstack) = 1 THEN "done" ELSE "run"
    /\ UNCHANGED <<length, layer_mask, resolved>>
    /\ UNCHANGED <<decVars, mixVars, trainVars, mainVars, ctorVars>>

(***************************************************************************)
(* Specifications.                                                         *)
(***************************************************************************)

\* The decoding loop.
Init ==
    /\ DecInit /\ MixParked /\ TrainParked /\ MainParked
    /\ CtorParked /\ LayerParked

Next == DecNext

Spec == Init /\ [][Next]_vars

\* The construction of the Mixer trainer.
InitMixer ==
    /\ DecParked /\ MixInit /\ TrainParked /\ MainParked
    /\ CtorParked /\ LayerParked

NextMixer == MixNext

SpecMixer == InitMixer /\ [][NextMixer]_vars

\* Training steps on the constructed Mixer.
InitTrain ==
    /\ DecParked /\ MixParked /\ TrainInit /\ MainParked
    /\ CtorParked /\ LayerParked

NextTrain ==
    \/ RunCall
    \/ RunDecode
    \/ RunReward
    \/ RunFeedWeights
    \/ RunOptimizer
    \/ RunRegressionOptimizer

SpecTrain == InitTrain /\ [][NextTrain]_vars

\* The command line driver.
InitMain ==
    /\ DecParked /\ MixParked /\ TrainParked /\ MainInit
    /\ CtorParked /\ LayerParked

NextMain ==
    \/ ParseArgs
    \/ ParseArgsValueError
    \/ ParseArgsAssertionError
    \/ BuildGraph
    \/ MakeMixer
    \/ MakeCrossEntropyTrainer

SpecMain == InitMain /\ [][NextMain]_vars

\* The constructor of the decoder.
InitCtor ==
    /\ DecParked /\ MixParked /\ TrainParked /\ MainParked
    /\ CtorInit /\ LayerParked

NextCtor ==
    \/ CtorEncoderStates
    \/ CtorRaiseValueError
    \/ CtorBuildCost
    \/ CtorReuseVariables
    \/ CtorBuildRuntimeLogits

SpecCtor == InitCtor /\ [][NextCtor]_vars

\* One request for the output of the layer stack.
InitLayer ==
    /\ DecParked /\ MixParked /\ TrainParked /\ MainParked
    /\ LayerInit

NextLayer ==
    \/ LayerRequest
    \/ LayerEnter
    \/ LayerBase
    \/ LayerCompute

SpecLayer == InitLayer /\ [][NextLayer]_vars

\* The request runs on: Python executes the calls of layer one after the
\* other until the outermost call returns.
SpecLayerFair == SpecLayer /\ WF_vars(NextLayer)

(***************************************************************************)
(* Properties of the decoding loop.                                        *)
(***************************************************************************)

\* C1: finished-sequence freezing.  In every step of the loop, a batch
\* element that is finished before the step is still finished after it, and
\* the symbol a step appends to outputs for such an element is the padding
\* id.  Since finished stays true, this covers every later step.
C1_FinishedFreezing ==
    [][\A i \in Batch :
          finished[i] =>
              /\ finished'[i]
              /\ (Len(outputs') > Len(outputs) =>
                      outputs'[Len(outputs')][i] = PAD_TOKEN_INDEX)]_decVars

\* A sequence finished at step 1 and two more steps were taken after it.
C1_Witness ==
    /\ Len(outputs) >= 3
    /\ \E i \in Batch :
          /\ outputs[1][i] = END_TOKEN_INDEX
          /\ logits[2][i] # PAD_TOKEN_INDEX
          /\ outputs[2][i] = PAD_TOKEN_INDEX
          /\ outputs[3][i] = PAD_TOKEN_INDEX
          /\ finished[i]

\* C2: length bound.  The loop performs at most max_output_len step
\* transitions, every completed transition adds exactly one to the step
\* counter, and the loop is left at step = max_output_len whatever the
\* finished flags are.
C2_LengthBound ==
    /\ calls <= MaxOutputLen
    /\ step <= MaxOutputLen
    /\ (pc # "raised" => step = calls)
    /\ (pc = "done" => step = MaxOutputLen)

\* The loop ran to max_output_len although every sequence had already
\* produced the end token at the first step.
C2_Witness ==
    /\ pc = "done"
    /\ step = MaxOutputLen
    /\ \A i \in Batch : outputs[1][i] = END_TOKEN_INDEX

\* C3: history-length invariant.  The length of each of the six histories
\* equals the step counter in every reachable loop state.
C3_HistoryLength ==
    /\ Len(logits) = step
    /\ Len(decoder_outputs) = step
    /\ Len(mask) = step
    /\ Len(outputs) = step
    /\ Len(decoded_symbols) = step
    /\ Len(input_mask) = step

\* Two steps were taken and every history holds two entries.
C3_Witness ==
    /\ step = 2
    /\ Len(decoded_symbols) = 2
    /\ Len(input_mask) = 2
    /\ Len(outputs) = 2

\* C5: in both modes (sampling and arg-max) every invocation of the step
\* completes its transition: it returns a new loop state whose histories
\* are one longer, the next symbol of an already finished sequence is the
\* padding id and finished is finished OR (next symbol == end id).
C5_BothModesComplete ==
    /\ pc # "raised"
    /\ Len(outputs) = calls
    /\ step = calls
    /\ (calls > 0 =>
          \A i \in Batch :
              /\ input_mask[calls][i] = 0 => outputs[calls][i] = PAD_TOKEN_INDEX
              /\ finished[i] = (input_mask[calls][i] = 0
                                \/ outputs[calls][i] = END_TOKEN_INDEX))

(***************************************************************************)
(* Properties of the gradient mixer.                                       *)
(***************************************************************************)
Present(kind) == kind \in {"Tensor", "IndexedSlices"}

\* Both for loops of the constructor have run to their end.
LoopsOver == mpc \in {"apply", "built"} \/ merr = "NoGradients"

\* The value of a mixed gradient when every mixing weight is fed w.
EvalAt(g, w) ==
    [t \in Terms |-> CoefOf(g.form, t)[1] + CoefOf(g.form, t)[2] * w]

\* The sum over the steps of one stream's gradients of variable j.
StreamSum(stream, kinds, j) ==
    [t \in Terms |->
        IF t[1] = stream /\ t[3] = j /\ Present(kinds[<<t[2], j>>])
        THEN 1 ELSE 0]

StreamAbsent(kinds, j) == \A i \in StepIdx : ~Present(kinds[<<i, j>>])

C8_NoneEntryRaises ==
    mpc = "built" => \A j \in VarIdx : ~mixed_gradients[j + 1].isNone

\* C8 as amended: a variable whose entry is still None after all steps is
\* left out of the update that is built, every other variable is in it, and
\* building the update raises only when every entry is None.
C8_NoneEntriesOmitted ==
    /\ mpc = "built" =>
          /\ \A j \in VarIdx :
                 (j \in update_vars) = ~mixed_gradients[j + 1].isNone
          /\ update_vars # {}
    /\ merr = "NoGradients" =>
          \A j \in VarIdx : mixed_gradients[j + 1].isNone

\* The update was built although the entry of some variable is None.
C8_Witness ==
    /\ mpc = "built"
    /\ \E j \in VarIdx : mixed_gradients[j + 1].isNone /\ j \notin update_vars
    /\ \E j \in VarIdx : j \in update_vars

(***************************************************************************)
(* Properties of the training step.                                        *)
(***************************************************************************)

\* C6: the mixing weight the caller put in the feed values for step t is the
\* weight the optimizer step is run with for step t; 1 is used only for a
\* step the caller gave no weight for.
C6_CallerWeightsUsed ==
    last_op = "mixer_optimizer" =>
        \A t \in StepIdx :
            used_weights[t] =
                (IF caller_fd[t] = NotFed THEN 1 ELSE caller_fd[t])

\* C9: disjoint writers.  The regressor's gradient-descent update leaves
\* every main-model variable unchanged and changes nothing but the
\* regressor's weight matrix and bias; the mixer's optimizer step leaves
\* the regressor's variables unchanged.
C9_DisjointWriters ==
    /\ last_op = "regression_optimizer" =>
          \A v \in MainVariables : params[v] = prev_params[v]
    /\ last_op = "mixer_optimizer" =>
          \A v \in AllVariables :
              params[v] # prev_params[v] =>
                  /\ v \notin RegressorVariables
                  /\ ~StartsWith(VariableName(v), MixerScope)

(***************************************************************************)
(* Properties of the command line driver.                                  *)
(***************************************************************************)

\* The --mixer argument is a list of integers of the given length.
IsListOfLen(arg, n) ==
    /\ arg.given
    /\ \A k \in 1 .. Len(SplitComma(arg.text)) : IsInt(SplitComma(arg.text)[k])
    /\ Len(SplitComma(arg.text)) = n

\* C10: a mixing-weight list whose length differs from the maximum output
\* length is rejected with an error before the graph is constructed, and a
\* list whose length equals it is accepted and the Mixer trainer is
\* constructed.
C10_WeightListLength ==
    /\ (argv_mixer.given /\ ~IsListOfLen(argv_mixer, maximum_output)) =>
          (~graph_built /\ tpc # "parsed")
    /\ IsListOfLen(argv_mixer, maximum_output) =>
          /\ texc = ""
          /\ (tpc = "done" => trainer = "Mixer")
          /\ tpc # "exit"

(***************************************************************************)
(* Properties of the decoder's constructor.                                *)
(***************************************************************************)

\* C11: dimension-mismatch rejection.  When the embedding size differs from
\* the size of the channel axis of the encoder's output, the constructor
\* raises ValueError, and neither the cost nor the runtime logits of the
\* decoder are built at any point of the construction; when the two sizes
\* are equal the constructor raises nothing.
C11_DimensionMismatchRejected ==
    /\ embedding_size # encoder_channels =>
          /\ ~cost_built
          /\ ~runtime_logits_built
          /\ cpc \in {"fields", "states", "raised"}
          /\ (cpc = "raised" => cexc = "ValueError")
    /\ embedding_size = encoder_channels =>
          /\ cexc = ""
          /\ cpc # "raised"
          /\ (cpc = "done" => cost_built /\ runtime_logits_built)

\* The constructor raised on sizes that differ, with nothing built.
C11_Witness ==
    /\ cpc = "raised"
    /\ cexc = "ValueError"
    /\ embedding_size # encoder_channels
    /\ dimension = encoder_channels
    /\ ~cost_built

(***************************************************************************)
(* Properties of one call of Mixer.run.                                    *)
(***************************************************************************)

\* C12: single-writer training step.  Within one call of run the variables
\* are left as they are by the steps that decode the sequences and compute
\* the rewards; the only step of the call that changes them is the run of
\* the optimizer that ends it, which comes after decoding and reward, applies
\* the update once, and finds the variables as they were when the rewarded
\* sequences were decoded.
C12_SingleWriter ==
    [][/\ rpc \in {"called", "decoded", "rewarded"} => params' = params
       /\ rpc = "fed" =>
             /\ rpc' = "idle"
             /\ bleu_fed
             /\ decoded_params = params
             /\ params' = ApplyUpdate(params, mixer_updates)
             /\ params' # params
             /\ last_op' = "mixer_optimizer"
             /\ ops' = ops + 1]_trainVars

\* A call of run has ended: the optimizer changed variables whose values
\* before the update are those the rewarded sequences were decoded from.
C12_Witness ==
    /\ rpc = "idle"
    /\ last_op = "mixer_optimizer"
    /\ bleu_fed
    /\ prev_params = decoded_params
    /\ params # prev_params
    /\ params = ApplyUpdate(decoded_params, mixer_updates)

(***************************************************************************)
(* Properties of the layer stack.                                          *)
(***************************************************************************)

\* Every position of the tensor is a function of input positions that are
\* not after it.
Causal(x) == \A t \in DOMAIN x.deps : x.deps[t] \subseteq 1 .. t

\* C13: mask causality.  At every level of the stack, the states a call of
\* layer returns at position t, and the context the self-attention sublayer
\* of the next level computes from them at position t, are functions of the
\* input positions t' <= t only.
C13_MaskCausality ==
    lreturned # NoLevel =>
        /\ Causal(lresult.states)
        /\ Causal(SelfAttentionSublayer(lresult))

\* A stack of two or more levels was built over three or more positions,
\* and a later position of its output is a function of every position up
\* to it, the first position of itself alone.
C13_Witness ==
    /\ lpc = "done"
    /\ lreturned = depth
    /\ depth >= 2
    /\ length >= 3
    /\ lresult.states.deps[1] = {1}
    /\ lresult.states.deps[3] = {1, 2, 3}

(***************************************************************************)
(* Properties of the accumulated gradients.                                *)
(***************************************************************************)

\* The steps that contribute to the entry of variable j: those at which the
\* cross-entropy gradient of j is present.
Contributing(j) == {i \in StepIdx : Present(xent_gradients[<<i, j>>])}

\* The sum over the steps in S of
\* mix_w[i] * xent_gradients[i][j] + (1 - mix_w[i]) * reinforce_gradients[i][j]
SumOfMixedTerms(S, j) ==
    {<<t, IF t[1] = "xent" THEN MixW ELSE OneMinusMixW>> :
        t \in {u \in Terms : u[3] = j /\ u[2] \in S}}

\* C14: gradient accumulation.  When both loops have run to their end, the
\* list holds one entry per trainable variable; the entry of variable j is
\* made of gradients of variable j only and is the sum, over the steps that
\* contribute to j, of mix_w * xent gradient + (1 - mix_w) * reinforce
\* gradient of that step; it is None when no step contributes.
C14_GradientAccumulation ==
    LoopsOver =>
        /\ Len(mixed_gradients) = NumVars
        /\ \A j \in VarIdx :
              LET g == mixed_gradients[j + 1]
              IN  IF Contributing(j) = {}
                  THEN g = NoneGradient
                  ELSE /\ ~g.isNone
                       /\ g.form = SumOfMixedTerms(Contributing(j), j)

\* Both loops are over; one entry is the sum of the mixed gradients of two
\* steps, another was None after the first step and was set by a later one.
C14_Witness ==
    /\ LoopsOver
    /\ \E j \in VarIdx :
          /\ Contributing(j) = {0, 1}
          /\ mixed_gradients[j + 1].form = TfAdd(MixedTerm(0, j), MixedTerm(1, j))
    /\ \E j \in VarIdx :
          /\ Contributing(j) = {1}
          /\ mixed_gradients[j + 1].form = MixedTerm(1, j)

(***************************************************************************)
(* Properties of the order of the decoding steps.                          *)
(***************************************************************************)

\* tf.to_float of a boolean mask
ToFloat(b) == [i \in Batch |-> IF b[i] THEN 1 ELSE 0]

\* C15: strict step ordering.  Entry t of a history is the one appended by
\* step t - 1.  The symbol step 0 appends to decoded_symbols is the start
\* symbol, and the one a later step appends is the entry the step before it
\* appended to outputs; the input_mask entry step 0 appends is "not
\* finished" for every element, and the one a later step appends is the
\* mask entry of the step before it.  The symbol and the finished flags the
\* next step will consume are those the last step left.
C15_StepOrdering ==
    /\ \A t \in 1 .. Len(decoded_symbols) :
          decoded_symbols[t] =
              (IF t = 1 THEN [i \in Batch |-> START_TOKEN_INDEX]
               ELSE outputs[t - 1])
    /\ \A t \in 1 .. Len(input_mask) :
          input_mask[t] =
              (IF t = 1 THEN [i \in Batch |-> 1] ELSE ToFloat(mask[t - 1]))
    /\ Len(outputs) > 0 =>
          /\ input_symbol = outputs[Len(outputs)]
          /\ \A i \in Batch : finished[i] = ~mask[Len(mask)][i]

\* Three steps were taken; an element finished at the first of them while
\* another went on, and the second step consumed what the first one left.
C15_Witness ==
    /\ step >= 3
    /\ \E i, k \in Batch :
          /\ outputs[1][i] = END_TOKEN_INDEX
          /\ decoded_symbols[2][i] = END_TOKEN_INDEX
          /\ input_mask[2][i] = 0
          /\ outputs[1][k] = UNK_TOKEN_INDEX
          /\ decoded_symbols[2][k] = UNK_TOKEN_INDEX
          /\ input_mask[2][k] = 1
          /\ decoded_symbols[1][i] = START_TOKEN_INDEX
          /\ decoded_symbols[3] = outputs[2]

(***************************************************************************)
(* Properties of the structure of the layer stack.                         *)
(***************************************************************************)

\* The sublayers of levels 1 .. L, in the order of their application.
RECURSIVE SublayersUpTo(_)
SublayersUpTo(L) ==
    IF L = 0 THEN << >>
    ELSE SublayersUpTo(L - 1)
             \o <<"self_attention", "encdec_attention", "feedforward">>

\* C16: layer stack structure.  The call for level 0 returns the embedded
\* inputs and the mask as they were passed; the call for a level L >= 1
\* returns the mask as passed and states obtained from the embedded inputs
\* by the self-attention, encoder-attention and feed-forward sublayers of
\* the levels 1 .. L, level by level and in that order, followed by one
\* layer normalization exactly when L is the depth of the decoder; so no
\* intermediate level and no stack of depth 0 is normalised.
C16_LayerStackStructure ==
    lreturned # NoLevel =>
        /\ lresult.mask = layer_mask
        /\ lreturned = 0 =>
              lresult.states = EmbeddedInputs(length)
        /\ lresult.states.ops =
              SublayersUpTo(lreturned)
                  \o (IF lreturned = depth /\ lreturned >= 1
                      THEN <<"layer_norm">> ELSE << >>)

\* The outermost call of a stack of two or more levels returned: its states
\* went through three sublayers per level and one final normalization.
C16_Witness ==
    /\ lpc = "done"
    /\ depth >= 2
    /\ lreturned = depth
    /\ Len(lresult.states.ops) = 3 * depth + 1
    /\ lresult.states.ops[3 * depth + 1] = "layer_norm"
    /\ lresult.states.ops[3] = "feedforward"
    /\ lresult.states.ops[4] = "self_attention"

(***************************************************************************)
(* Properties of the resolution of the levels.                             *)
(***************************************************************************)

\* The levels d, d - 1, ..., 0 in this order.
Descending(d) == [k \in 1 .. d + 1 |-> d + 1 - k]

IsPrefix(p, q) == Len(p) <= Len(q) /\ SubSeq(q, 1, Len(p)) = p

\* While and after a request is served: no level is computed twice and the
\* levels are entered in descending order; once it is served, every level
\* depth .. 0 was entered once and every level 1 .. depth computed once.
ResolvedOnce ==
    /\ \A l \in Levels : computed[l] <= 1
    /\ IsPrefix(resolved, Descending(depth))
    /\ lpc = "done" =>
          /\ lstack = << >>
          /\ lreturned = depth
          /\ resolved = Descending(depth)
          /\ \A l \in Levels : computed[l] = (IF 1 <= l /\ l <= depth THEN 1 ELSE 0)

\* C17: layer resolution terminates and computes each level once.  For every
\* depth >= 0 a request for layer(depth) comes to its end, after entering
\* the levels depth, depth - 1, ..., 0 in this order, and the sublayers of
\* each level 1 .. depth are computed exactly once for the request.
C17_LayerResolution ==
    /\ []ResolvedOnce
    /\ (lpc = "run") ~> (lpc = "done")

\* A request for the deepest stack of three levels was served.
C17_Witness ==
    /\ lpc = "done"
    /\ depth = 3
    /\ resolved = <<3, 2, 1, 0>>
    /\ computed[1] = 1 /\ computed[2] = 1 /\ computed[3] = 1

====
